---- MODULE Spec2Model ----
(***************************************************************************)
(* Model of lastexport.py: the last.fm play-count export of the beets      *)
(* plugin.  import_lastfm drives a page loop with a bounded retry loop     *)
(* per page, process_tracks upserts one quicktag row per track record      *)
(* through a cursor of one sqlite3 connection, and the connection is       *)
(* committed and closed after a blocking input() prompt.                   *)
(*                                                                         *)
(* Strings are sequences of character codes.  A 32-bit unsigned value is   *)
(* a pair <<hi, lo>> of 16-bit halves, since TLC integers are             *)
(* 32-bit signed.                                                          *)
(***************************************************************************)
EXTENDS Integers, Sequences, FiniteSets, TLC

\* ------------------------------------------------------------------ bounds

\* Largest totalPages the service reports in a response.
MaxPages == 3

\* Largest configured retry_limit (the configuration is an input).
MaxRetry == 2

\* Longest artist and longest title of the key evaluations.
MaxLen == 2

\* ----------------------------------------------------------------- strings

\* Whitespace removed by str.strip(): tab, LF, VT, FF, CR, space.
IsSpace(ch) == ch \in {9, 10, 11, 12, 13, 32}

RECURSIVE lstrip(_)
lstrip(s) ==
  IF s = <<>> THEN <<>>
  ELSE IF IsSpace(Head(s)) THEN lstrip(Tail(s)) ELSE s

RECURSIVE rstrip(_)
rstrip(s) ==
  IF s = <<>> THEN <<>>
  ELSE IF IsSpace(s[Len(s)]) THEN rstrip(SubSeq(s, 1, Len(s) - 1)) ELSE s

\* str.strip()
strip(s) == rstrip(lstrip(s))

\* str.lower() on one character of the ASCII range: 'A'..'Z' -> 'a'..'z'.
lower_ch(ch) == IF ch >= 65 /\ ch <= 90 THEN ch + 32 ELSE ch

\* str.lower()
lower(s) == [i \in 1..Len(s) |-> lower_ch(s[i])]

\* str.encode('utf-8') on the ASCII range: one byte per character, the
\* byte being the code point.
encode_utf8(s) == [i \in 1..Len(s) |-> s[i] % 256]

\* ------------------------------------------------------------------- crc32

RECURSIVE BitXor(_, _)
BitXor(a, b) ==
  IF a = 0 THEN b
  ELSE IF b = 0 THEN a
  ELSE ((a + b) % 2) + 2 * BitXor(a \div 2, b \div 2)

\* Bitwise xor of two 32-bit values.
Xor32(x, y) == <<BitXor(x[1], y[1]), BitXor(x[2], y[2])>>

\* Logical shift right by one bit of a 32-bit value.
Shr1(x) == <<x[1] \div 2, (x[2] \div 2) + (x[1] % 2) * 32768>>

\* The reflected CRC-32 polynomial 0xEDB88320.
Poly == <<60856, 33568>>

AllOnes == <<65535, 65535>>

\* One of the eight shift steps of a table entry.
CrcShift(c) == IF c[2] % 2 = 1 THEN Xor32(Shr1(c), Poly) ELSE Shr1(c)

\* zlib's crc_table: entry n is n shifted eight times through the
\* polynomial.
CrcTable ==
  [n \in 0..255 |->
     CrcShift(CrcShift(CrcShift(CrcShift(
     CrcShift(CrcShift(CrcShift(CrcShift(<<0, n>>))))))))]

\* Logical shift right by eight bits of a 32-bit value.
Shr8(x) == <<x[1] \div 256, (x[2] \div 256) + (x[1] % 256) * 256>>

\* The register after one input byte:
\* crc_table[(crc ^ byte) & 0xff] ^ (crc >> 8).
CrcByte(c, byte) == Xor32(CrcTable[BitXor(c[2] % 256, byte)], Shr8(c))

RECURSIVE CrcBytes(_, _)
CrcBytes(c, bytes) ==
  IF bytes = <<>> THEN c ELSE CrcBytes(CrcByte(c, Head(bytes)), Tail(bytes))

\* zlib.crc32(bytes)
crc32(bytes) == Xor32(CrcBytes(AllOnes, bytes), AllOnes)

\* x & 0xffffffff
Mask32(x) == <<x[1] % 65536, x[2] % 65536>>

\* --------------------------------------------------------------------- str

RECURSIVE str(_)
\* str(n) of a non-negative int: its decimal digits, '0' being code 48.
str(n) == IF n < 10 THEN <<48 + n>> ELSE Append(str(n \div 10), 48 + (n % 10))

\* Quotient and remainder of a 32-bit value by ten, by long division on
\* the halves.
DivMod10(x) ==
  LET qh == x[1] \div 10
      rh == x[1] % 10
      mid == rh * 65536 + x[2]
  IN  [q |-> <<qh + (mid \div 10) \div 65536, (mid \div 10) % 65536>>,
       r |-> mid % 10]

RECURSIVE format32(_)
\* "{}".format(k) of a 32-bit unsigned value: its decimal digits.
format32(x) ==
  IF x[1] = 0 /\ x[2] < 10 THEN <<48 + x[2]>>
  ELSE LET d == DivMod10(x) IN Append(format32(d.q), 48 + d.r)

\* The key with the title left in its own case.
artist_title_keepcase(artist, title) ==
  Mask32(crc32(encode_utf8(lower(artist) \o title)))

\* The key with a separator between artist and title.
artist_title_separated(artist, title) ==
  Mask32(crc32(encode_utf8(lower(artist) \o <<0>> \o lower(title))))

\* The storage key of a track: crc32 of the UTF-8 bytes of the lower-cased
\* artist followed by the lower-cased title, masked to 32 bits.
artist_title(artist, title) ==
  Mask32(crc32(encode_utf8(lower(artist) \o lower(title))))

\* ------------------------------------------------------------------ inputs

\* Track records as fetch_tracks returns them: the artist name, the track
\* name and the play count.
TrkA == [artist |-> <<65>>, name |-> <<66, 67>>, playcount |-> 10]

\* Same concatenation as TrkA, split at another place.
TrkB == [artist |-> <<65, 66>>, name |-> <<67>>, playcount |-> 2]

\* TrkA in lower case, with surrounding whitespace.
TrkC == [artist |-> <<32, 97>>, name |-> <<98, 99, 32>>, playcount |-> 3]

\* A track with a key of its own.
TrkD == [artist |-> <<98>>, name |-> <<65>>, playcount |-> 10]

\* The track lists a response can carry.
TrackLists == {<<>>, <<TrkA, TrkA>>, <<TrkC, TrkD, TrkB>>}

\* What one call of fetch_tracks can return.
Responses == [tracks : TrackLists, total_pages : 0..MaxPages]

NoResp == [tracks |-> <<>>, total_pages |-> -1]

\* config['lastfm']['user']: empty (the default) or a user name.
Users == {<<>>, <<97>>}

\* ----------------------------------------------------------------- storage

FieldName == "LASTFM_PLAYCOUNT_DB"

\* The row one track is stored as.
Row(key, play_count) ==
  [url |-> format32(key), subsong |-> "-1", fieldname |-> FieldName,
   value |-> str(play_count)]

\* Two rows conflict on the unique key of quicktag.
SameKey(r, s) ==
  r.url = s.url /\ r.subsong = s.subsong /\ r.fieldname = s.fieldname

RECURSIVE DeleteConflicts(_, _)
DeleteConflicts(table, row) ==
  IF table = <<>> THEN <<>>
  ELSE IF SameKey(Head(table), row) THEN DeleteConflicts(Tail(table), row)
       ELSE <<Head(table)>> \o DeleteConflicts(Tail(table), row)

\* A plain INSERT.
Insert(table, row) == Append(table, row)

\* INSERT OR REPLACE INTO quicktag: the rows that conflict with the new row
\* on the unique key are deleted, then the new row is inserted.
InsertOrReplace(table, row) == Append(DeleteConflicts(table, row), row)

\* An execute that commits at once.
execute_autocommit(db, row) ==
  [committed |-> InsertOrReplace(db.pending, row),
   pending |-> InsertOrReplace(db.pending, row)]

\* c.execute(...) on the cursor of a connection opened with the default
\* isolation level: the statement runs in the connection's open
\* transaction, the file keeps its committed content.
execute(db, row) ==
  [committed |-> db.committed, pending |-> InsertOrReplace(db.pending, row)]

\* conn.commit()
commit(db) == [committed |-> db.pending, pending |-> db.pending]

\* Contents of the quicktag table a run can start from: an empty table, or
\* a table holding the play count of an earlier run for the key of TrkA
\* and a row of another field for the same url.
InitialTables ==
  {<<>>,
   <<Row(artist_title(<<97>>, <<98, 99>>), 7),
     [url |-> format32(artist_title(<<97>>, <<98, 99>>)), subsong |-> "-1",
      fieldname |-> "RATING", value |-> str(5)]>>}

\* ----------------------------------------------------------- process_tracks

\* The loop body of process_tracks counting a record only when its key has
\* no row yet.
ProcessOne_rows(acc, page, track) ==
  LET artist == strip(track.artist)
      title == strip(track.name)
      play_count == track.playcount
      row == Row(artist_title(artist, title), play_count)
      fresh == \A i \in 1..Len(acc.db.pending) :
                 ~SameKey(acc.db.pending[i], row)
  IN  [db |-> execute(acc.db, row),
       total_found |-> acc.total_found + (IF fresh THEN 1 ELSE 0),
       total_fails |-> acc.total_fails,
       written |-> Append(acc.written,
                          [page |-> page, track |-> track, row |-> row])]

\* The loop body of process_tracks counting as unknown a record whose key
\* has a row already.
ProcessOne_unknown(acc, page, track) ==
  LET artist == strip(track.artist)
      title == strip(track.name)
      play_count == track.playcount
      row == Row(artist_title(artist, title), play_count)
      fresh == \A i \in 1..Len(acc.db.pending) :
                 ~SameKey(acc.db.pending[i], row)
  IN  [db |-> execute(acc.db, row),
       total_found |-> acc.total_found + 1,
       total_fails |-> acc.total_fails + (IF fresh THEN 0 ELSE 1),
       written |-> Append(acc.written,
                          [page |-> page, track |-> track, row |-> row])]

\* The loop body of process_tracks for one track of the page.
ProcessOne(acc, page, track) ==
  LET artist == strip(track.artist)
      title == strip(track.name)
      play_count == track.playcount
      row == Row(artist_title(artist, title), play_count)
  IN  [db |-> execute(acc.db, row),
       total_found |-> acc.total_found + 1,
       total_fails |-> acc.total_fails,
       written |-> Append(acc.written,
                          [page |-> page, track |-> track, row |-> row])]

RECURSIVE ProcessLoop(_, _, _, _)
\* for num in range(0, total)
ProcessLoop(acc, page, trks, num) ==
  IF num > Len(trks) THEN acc
  ELSE ProcessLoop(ProcessOne(acc, page, trks[num]), page, trks, num + 1)

\* process_tracks(lib, tracks, log, sqlite3_db, c): the counters it
\* returns, the database after its statements and the log of its
\* statements.
process_tracks(trks, page, database, log) ==
  ProcessLoop([db |-> database, total_found |-> 0, total_fails |-> 0,
               written |-> log], page, trks, 1)

\* -------------------------------------------------------------------- state

VARIABLES
  user,           \* config['lastfm']['user']
  retry_limit,    \* config['lastexport']['retry_limit']
  pc,             \* position in import_lastfm, or how it ended
  conn,           \* the sqlite3 connection: "none", "open", "closed"
  db,             \* the database: committed content and the connection's view
  page_total, page_current, found_total, unknown_total,
  retry,          \* the loop variable of the retry loop, -1 while unbound
  iter,           \* how many values range(0, retry_limit) has handed out
  tracks,         \* the track list of the latest fetch
  summary,        \* the three figures of the final log lines
  store0,         \* history: the table at the start of the run
  resp,           \* history: the latest response of fetch_tracks
  fetched,        \* history: the page index of every fetch_tracks call
  processed,      \* history: every page handed to process_tracks
  written,        \* history: every statement executed
  events,         \* history: open, write, gate, commit, close in order
  max_total,      \* history: the largest page total a response has reported
  logged,         \* the messages of the retry loop, lines 151 to 160
  fp_artist, fp_title,   \* the arguments of one evaluation of the key
  fp_key          \* its result, NoKey before the evaluation

vars == <<user, retry_limit, pc, conn, db, page_total, page_current,
          found_total, unknown_total, retry, iter, tracks, summary, store0,
          resp, fetched, processed, written, events, max_total, logged,
          fp_artist, fp_title, fp_key>>

\* What a run of import_lastfm never assigns.
config == <<user, retry_limit, fp_artist, fp_title, fp_key>>
locals == <<page_total, page_current, found_total, unknown_total, retry,
            iter, tracks>>
history == <<store0, resp, fetched, processed, written, events, max_total,
             logged>>

NoKey == <<-1, -1>>

\* An event of the storage handle; a run of writes is one entry.
Event(log, e) ==
  IF log # <<>> /\ log[Len(log)] = e /\ e = "write" THEN log
  ELSE Append(log, e)

NoSummary == [pages |-> -1, unknown |-> -1, found |-> -1]

Init ==
  /\ user \in Users
  /\ retry_limit \in 0..MaxRetry
  /\ store0 \in InitialTables
  /\ db = [committed |-> store0, pending |-> store0]
  /\ pc = "init"
  /\ conn = "none"
  /\ page_total = 0
  /\ page_current = 0
  /\ found_total = 0
  /\ unknown_total = 0
  /\ retry = -1
  /\ iter = 0
  /\ tracks = <<>>
  /\ summary = NoSummary
  /\ resp = NoResp
  /\ fetched = <<>>
  /\ processed = <<>>
  /\ written = <<>>
  /\ events = <<>>
  /\ max_total = 0
  /\ logged = <<>>
  /\ fp_artist = <<>>
  /\ fp_title = <<>>
  /\ fp_key = NoKey

\* ------------------------------------------------------------ import_lastfm

\* if page_total < 1
NoData_negative(total) == total < 0

NoData(total) == total < 1

\* while page_current < page_total, off by one
WhileCond_inclusive(cur, total) == cur <= total

WhileCond(cur, total) == cur < total

\* A retry loop that raises when it runs out of attempts.
OnExhausted_raise == "ImportAborted"

\* Where the retry loop goes when range(0, retry_limit) is used up: the
\* for statement has no else clause, control falls to page_current += 1.
OnExhausted == "next"

\* A page loop followed by the commit, without the prompt.
AfterWhile_commit == "commit"

\* Where the page loop exits to: the input() prompt.
AfterWhile == "gate"

\* A test of the user name that never fails.
UserMissing_never(u) == FALSE

\* if not user: the empty string is the only user that fails the test.
UserMissing(u) == u = <<>>

\* if not user: raise ui.UserError
StartNoUser ==
  /\ pc = "init"
  /\ UserMissing(user)
  /\ pc' = "ConfigError"
  /\ UNCHANGED <<config, conn, db, locals, summary, history>>

\* The counters are set and the database is opened.
StartOpen ==
  /\ pc = "init"
  /\ ~UserMissing(user)
  /\ page_total' = 1
  /\ page_current' = 0
  /\ found_total' = 0
  /\ unknown_total' = 0
  /\ conn' = "open"
  /\ events' = Event(events, "open")
  /\ pc' = "while"
  /\ UNCHANGED <<config, db, retry, iter, tracks, summary, store0, resp,
                 fetched, processed, written, max_total, logged>>

\* The page loop's test holds: the retry loop starts.
WhileEnter ==
  /\ pc = "while"
  /\ WhileCond(page_current, page_total)
  /\ iter' = 0
  /\ pc' = "for"
  /\ UNCHANGED <<config, conn, db, page_total, page_current, found_total,
                 unknown_total, retry, tracks, summary, history>>

\* The page loop's test fails.
WhileExit ==
  /\ pc = "while"
  /\ ~WhileCond(page_current, page_total)
  /\ pc' = AfterWhile
  /\ UNCHANGED <<config, conn, db, locals, summary, history>>

\* A range that hands out one value more.
MoreAttempts_inclusive(i, limit) == i <= limit

\* for retry in range(0, retry_limit): the range has a value left.
MoreAttempts(i, limit) == i < limit

\* The retry loop hands out its next value and fetch_tracks is called for
\* page_current + 1.
ForAttempt ==
  /\ pc = "for"
  /\ MoreAttempts(iter, retry_limit)
  /\ retry' = iter
  /\ iter' = iter + 1
  /\ fetched' = Append(fetched, page_current + 1)
  /\ pc' = "fetching"
  /\ UNCHANGED <<config, conn, db, page_total, page_current, found_total,
                 unknown_total, tracks, summary, store0, resp, processed,
                 written, events, max_total, logged>>

\* range(0, retry_limit) is used up.
ForExhausted ==
  /\ pc = "for"
  /\ ~MoreAttempts(iter, retry_limit)
  /\ pc' = OnExhausted
  /\ UNCHANGED <<config, conn, db, locals, summary, history>>

\* fetch_tracks raises: nothing in import_lastfm catches it.
FetchRaises ==
  /\ pc = "fetching"
  /\ pc' = "TransportError"
  /\ UNCHANGED <<config, conn, db, locals, summary, history>>

\* fetch_tracks returns a page total below one: ui.UserError.
FetchNoData ==
  /\ pc = "fetching"
  /\ \E r \in Responses :
       /\ NoData(r.total_pages)
       /\ resp' = r
       /\ max_total' = IF r.total_pages > max_total THEN r.total_pages
                       ELSE max_total
       /\ tracks' = r.tracks
       /\ page_total' = r.total_pages
  /\ pc' = "ImportAborted"
  /\ UNCHANGED <<config, conn, db, page_current, found_total, unknown_total,
                 retry, iter, summary, store0, fetched, processed, written,
                 events, logged>>

\* Processed tracks without the break: the retry loop goes on.
AfterTracks_nobreak == "for"

\* The break of line 149: the retry loop is left for page_current += 1.
AfterTracks == "next"

\* fetch_tracks returns tracks: they are processed and the retry loop is
\* left.
FetchTracks ==
  /\ pc = "fetching"
  /\ \E trks \in TrackLists \ {<<>>} :
       \E res \in {process_tracks(trks, page_current + 1, db, written)} :
         LET found == res.total_found
             unknown == res.total_fails
         IN
           /\ \E total \in 0..MaxPages :
                /\ ~NoData(total)
                /\ resp' = [tracks |-> trks, total_pages |-> total]
                /\ page_total' = total
                /\ max_total' = IF total > max_total THEN total ELSE max_total
           /\ tracks' = trks
           /\ db' = res.db
           /\ written' = res.written
           /\ found_total' = found_total + found
           /\ unknown_total' = unknown_total + unknown
           /\ processed' = Append(processed,
                                  [page |-> page_current + 1, tracks |-> trks])
  /\ events' = Event(events, "write")
  /\ pc' = AfterTracks
  /\ UNCHANGED <<config, conn, page_current, retry, iter, summary, store0,
                 fetched, logged>>

\* if retry < retry_limit, with retry a value of range(0, retry_limit).
MoreRetries(r, limit) == r < limit

\* The messages of lines 151 to 160 after an empty track list: the error,
\* then the retry notice or the failure report.
EmptyMessages(page, r, limit) ==
  <<[msg |-> "ERROR", page |-> page + 1, n |-> 0],
    IF MoreRetries(r, limit)
    THEN [msg |-> "Retrying", page |-> page + 1, n |-> r + 1]
    ELSE [msg |-> "FAIL", page |-> page, n |-> r + 1]>>

\* fetch_tracks returns no tracks: the error is logged and the retry loop
\* goes on.
FetchEmpty ==
  /\ pc = "fetching"
  /\ \E r \in Responses :
       /\ ~NoData(r.total_pages)
       /\ r.tracks = <<>>
       /\ resp' = r
       /\ max_total' = IF r.total_pages > max_total THEN r.total_pages
                       ELSE max_total
       /\ tracks' = r.tracks
       /\ page_total' = r.total_pages
  /\ logged' = logged \o EmptyMessages(page_current, retry, retry_limit)
  /\ pc' = "for"
  /\ UNCHANGED <<config, conn, db, page_current, found_total, unknown_total,
                 retry, iter, summary, store0, fetched, processed, written,
                 events>>

\* A page loop that steps over a page index.
Advance_two(cur) == cur + 2

\* page_current += 1
Advance(cur) == cur + 1

\* page_current += 1
NextPage ==
  /\ pc = "next"
  /\ page_current' = Advance(page_current)
  /\ pc' = "while"
  /\ UNCHANGED <<config, conn, db, page_total, found_total, unknown_total,
                 retry, iter, tracks, summary, history>>

\* input(...) returns.
Gate ==
  /\ pc = "gate"
  /\ events' = Event(events, "gate")
  /\ pc' = "commit"
  /\ UNCHANGED <<config, conn, db, locals, summary, store0, resp, fetched,
                 processed, written, max_total, logged>>

\* conn.commit()
Commit ==
  /\ pc = "commit"
  /\ db' = commit(db)
  /\ events' = Event(events, "commit")
  /\ pc' = "close"
  /\ UNCHANGED <<config, conn, locals, summary, store0, resp, fetched,
                 processed, written, max_total, logged>>

\* conn.close()
Close ==
  /\ pc = "close"
  /\ conn' = "closed"
  /\ events' = Event(events, "close")
  /\ pc' = "report"
  /\ UNCHANGED <<config, db, locals, summary, store0, resp, fetched,
                 processed, written, max_total, logged>>

\* The final log lines.
Report ==
  /\ pc = "report"
  /\ summary' = [pages |-> page_total, unknown |-> unknown_total,
                 found |-> found_total]
  /\ pc' = "done"
  /\ UNCHANGED <<config, conn, db, locals, history>>

Next ==
  \/ StartNoUser
  \/ StartOpen
  \/ WhileEnter
  \/ WhileExit
  \/ ForAttempt
  \/ ForExhausted
  \/ FetchRaises
  \/ FetchNoData
  \/ FetchTracks
  \/ FetchEmpty
  \/ NextPage
  \/ Gate
  \/ Commit
  \/ Close
  \/ Report

Spec == Init /\ [][Next]_vars

\* The runs over a table that is empty at the start.
LiveInit == Init /\ store0 = <<>>

\* The run as a sequential program whose calls return: a step that can be
\* taken is taken.
LiveSpec == LiveInit /\ [][Next]_vars /\ WF_vars(Next)

TypeOK ==
  /\ pc \in {"init", "while", "for", "fetching", "next", "gate", "commit",
             "close", "report", "done", "ConfigError", "ImportAborted",
             "TransportError"}
  /\ conn \in {"none", "open", "closed"}
  /\ page_current \in 0..(MaxPages + 1)
  /\ page_total \in 0..MaxPages
  /\ iter \in 0..retry_limit

\* ------------------------------------------------- the key, evaluated alone

\* The characters of the key evaluations: A, B, a, b.
Alphabet == {65, 66, 97, 98}

\* The strings over Alphabet of at most MaxLen characters.
Strings == UNION {[1..n -> Alphabet] : n \in 0..MaxLen}

FPInit ==
  /\ fp_artist \in Strings
  /\ fp_title \in Strings
  /\ fp_key = NoKey
  /\ user = <<>>
  /\ retry_limit = 0
  /\ store0 = <<>>
  /\ db = [committed |-> <<>>, pending |-> <<>>]
  /\ pc = "init"
  /\ conn = "none"
  /\ page_total = 0
  /\ page_current = 0
  /\ found_total = 0
  /\ unknown_total = 0
  /\ retry = -1
  /\ iter = 0
  /\ tracks = <<>>
  /\ summary = NoSummary
  /\ resp = NoResp
  /\ fetched = <<>>
  /\ processed = <<>>
  /\ written = <<>>
  /\ events = <<>>
  /\ max_total = 0
  /\ logged = <<>>

\* The key of the pair is computed, as lines 219 to 221 compute it.
Fingerprint ==
  /\ fp_key = NoKey
  /\ fp_key' = artist_title(fp_artist, fp_title)
  /\ UNCHANGED <<user, retry_limit, fp_artist, fp_title, pc, conn, db, locals,
                 summary, history>>

FPNext == Fingerprint

SpecFP == FPInit /\ [][FPNext]_vars

\* ------------------------------------------------------------------ helpers

Last(seq) == seq[Len(seq)]

Range(seq) == {seq[i] : i \in 1..Len(seq)}

Count(seq, x) == Cardinality({i \in 1..Len(seq) : seq[i] = x})

IsPrefix(s, t) == Len(s) <= Len(t) /\ SubSeq(t, 1, Len(s)) = s

\* The pages handed to process_tracks.
ProcessedPages == {processed[i].page : i \in 1..Len(processed)}

\* The pages the page loop is past without having processed them.
SkippedPages == {p \in 1..page_current : p \notin ProcessedPages}

RECURSIVE SumLen(_)
\* The track records of the processed pages, counted page by page.
SumLen(pages) ==
  IF pages = <<>> THEN 0 ELSE Len(Head(pages).tracks) + SumLen(Tail(pages))

\* The positions on the normal exit path, after the page loop.
NormalExit == {"gate", "commit", "close", "report", "done"}

\* The rows of the connection's view that statements of this run wrote.
RowsWritten ==
  {n \in 1..Len(db.pending) :
     \E i \in 1..Len(written) : written[i].row = db.pending[n]}

\* The rows of a table stored under a url as play count.
PlayCountRows(table, url) ==
  {n \in 1..Len(table) :
     /\ table[n].url = url
     /\ table[n].subsong = "-1"
     /\ table[n].fieldname = FieldName}

\* The last statement of the run for a url.
LastWrite(url) ==
  written[CHOOSE i \in 1..Len(written) :
            /\ written[i].row.url = url
            /\ \A j \in (i + 1)..Len(written) : written[j].row.url # url]

\* ------------------------------------------------------------------- claims

\* C1: a page whose retry_limit attempts all return an empty track list
\* with a page total of one or more is skipped without raising: the run
\* aborts only on a response without data, every skipped page has had
\* exactly retry_limit fetches and none of its tracks processed, and on
\* the normal exit path found_total counts the tracks of the processed
\* pages only.
C1_ExhaustedPageIsSkipped ==
  /\ pc = "ImportAborted" => (resp # NoResp /\ resp.total_pages < 1)
  /\ \A p \in SkippedPages :
       /\ Count(fetched, p) = retry_limit
       /\ \A i \in 1..Len(written) : written[i].page # p
  /\ pc \in NormalExit => found_total = SumLen(processed)

\* A run that skipped page 2 of 3 and ended normally with pages 1 and 3.
C1_Witness ==
  /\ pc = "done"
  /\ retry_limit = 2
  /\ fetched = <<1, 2, 2, 3>>
  /\ SkippedPages = {2}
  /\ ProcessedPages = {1, 3}
  /\ found_total = SumLen(processed)
  /\ found_total > 0

\* C2: a fetch attempt that raises is caught and retried, it never ends
\* import_lastfm: the run is never left through an exception of
\* fetch_tracks.
C2_TransportErrorIsRetried == pc # "TransportError"

\* C3: a response with a page total below one ends the run at once with
\* the UserError of line 142: no state follows it but the aborted one, so
\* it is not retried and no fetch follows; its tracks are not written;
\* when it is the first response nothing has been written at all.
C3_NoDataAborts ==
  (resp # NoResp /\ resp.total_pages < 1) =>
    /\ pc = "ImportAborted"
    /\ Last(fetched) \notin ProcessedPages
    /\ \A i \in 1..Len(written) : written[i].page # Last(fetched)
    /\ found_total = SumLen(processed)
    /\ Len(fetched) = 1 =>
         (written = <<>> /\ db.pending = store0 /\ db.committed = store0)

\* The first response of a run carries tracks and a page total of zero.
C3_Witness ==
  /\ pc = "ImportAborted"
  /\ Len(fetched) = 1
  /\ resp.tracks # <<>>
  /\ resp.total_pages = 0
  /\ written = <<>>

\* C4 as claimed: page_total is the page total of the latest response, and
\* no fetch is issued for a page index above the page total of the latest
\* response before it.
C4_NoFetchBeyondLatestTotal ==
  /\ resp # NoResp => page_total = resp.total_pages
  /\ (pc = "fetching" /\ resp # NoResp) => Last(fetched) <= resp.total_pages

\* C4 amended: page_total is the page total of the latest response; the
\* first attempt of a page is issued only while page_current < page_total,
\* so its index is at most the page total of the latest response before
\* it; the page loop is left only with page_current >= page_total, so no
\* page above the latest total is begun.  (The attempts after the first
\* are issued without the test.)
C4_FirstAttemptWithinLatestTotal ==
  /\ resp # NoResp => page_total = resp.total_pages
  /\ (pc = "fetching" /\ iter = 1) => page_current < page_total
  /\ (pc = "fetching" /\ iter = 1 /\ resp # NoResp) =>
       Last(fetched) <= resp.total_pages
  /\ pc \in NormalExit => page_current >= page_total

\* Page 1 reported three pages, page 2 reported two: the run ended after
\* page 2.
C4_Witness ==
  /\ pc = "done"
  /\ fetched = <<1, 2>>
  /\ max_total = 3
  /\ resp.total_pages = 2
  /\ page_current = 2

\* C5: in every terminal error state the storage handle, if it was opened,
\* has been closed.
C5_HandleReleasedOnFailure ==
  pc \in {"ConfigError", "ImportAborted"} => conn # "open"

\* The orders of the storage events of a run that ends normally.
NormalOrders ==
  {<<"open", "write", "gate", "commit", "close">>,
   <<"open", "gate", "commit", "close">>}

\* C6: the storage events of a run occur in the order: the writes, the
\* prompt, one commit, the close.  No commit comes before the prompt has
\* returned, no write after it, and a run that ends normally has gone
\* through all of them.
C6_WritesGateCommitClose ==
  /\ \E o \in NormalOrders : IsPrefix(events, o)
  /\ pc \in {"report", "done"} => events \in NormalOrders
  /\ pc \in {"report", "done"} => conn = "closed"
  /\ (written # <<>>) = ("write" \in Range(events))

\* A run with writes has ended normally.
C6_Witness ==
  /\ pc = "done"
  /\ written # <<>>
  /\ events = <<"open", "write", "gate", "commit", "close">>

\* C7: before the commit of the normal exit path the committed content of
\* the store is its content at the start of the run, and a run aborted by
\* the UserError of line 142 leaves the writes of the earlier pages in the
\* connection's open transaction, none of them committed.
C7_NothingCommittedBeforeCommit ==
  /\ pc \notin {"close", "report", "done"} => db.committed = store0
  /\ pc = "ImportAborted" =>
       /\ db.committed = store0
       /\ \A i \in 1..Len(written) :
            PlayCountRows(db.pending, written[i].row.url) # {}

\* A run aborted after a page was written.
C7_Witness ==
  /\ pc = "ImportAborted"
  /\ written # <<>>
  /\ db.pending # db.committed
  /\ db.committed = store0

\* C8: after any sequence of track records the connection's view holds,
\* for every key written, exactly one play-count row (url = key, subsong
\* "-1", fieldname LASTFM_PLAYCOUNT_DB), and its value is the play count
\* of the record processed last for that key.
C8_UpsertLastWriteWins ==
  \A i \in 1..Len(written) :
    LET url == written[i].row.url
        rows == PlayCountRows(db.pending, url)
    IN  /\ Cardinality(rows) = 1
        /\ \A n \in rows :
             db.pending[n].value = str(LastWrite(url).track.playcount)

\* The same record was processed twice, after records of the same key
\* with other play counts, over a table that had a row for the key.
C8_Witness ==
  /\ store0 # <<>>
  /\ Len(processed) = 2
  /\ processed[1].tracks = <<TrkC, TrkD, TrkB>>
  /\ processed[2].tracks = <<TrkA, TrkA>>
  /\ Cardinality(PlayCountRows(db.pending, written[1].row.url)) = 1

\* C9: found_total counts records: on the normal exit path it is the sum
\* of the lengths of the track lists of the processed pages, duplicates
\* included, and the rows this run wrote are never more than found_total.
C9_FoundCountsRecords ==
  /\ pc \in NormalExit => found_total = SumLen(processed)
  /\ found_total = Len(written)
  /\ Cardinality(RowsWritten) <= found_total

\* One page with the same record twice: one row, found_total = 2.
C9_Witness ==
  /\ pc = "done"
  /\ processed = <<[page |-> 1, tracks |-> <<TrkA, TrkA>>]>>
  /\ found_total = 2
  /\ Cardinality(RowsWritten) = 1

\* C10: the key is case-insensitive: the key computed for a pair is the
\* key of the lower-cased pair, and equals that of every pair of the
\* bounded alphabet with the same lower-cased artist and title.
C10_KeyIgnoresCase ==
  fp_key # NoKey =>
    /\ fp_key = artist_title(lower(fp_artist), lower(fp_title))
    /\ \A a \in Strings :
         (Len(a) = Len(fp_artist) /\ lower(a) = lower(fp_artist)) =>
           artist_title(a, fp_title) = fp_key

\* The key of a pair with upper-case letters in artist and title.
C10_Witness ==
  /\ fp_key # NoKey
  /\ fp_artist = <<65>>
  /\ fp_title = <<66, 97>>
  /\ fp_key = artist_title(<<97>>, <<98, 97>>)

\* C11: with an empty user the run fails with the UserError of line 119
\* before any side effect: it never leaves the start but into that error,
\* and then no connection has been opened, no page fetched, no statement
\* executed, and neither prompt nor commit has happened.
C11_NoUserNoSideEffect ==
  user = <<>> =>
    /\ pc \in {"init", "ConfigError"}
    /\ conn = "none"
    /\ fetched = <<>>
    /\ written = <<>>
    /\ events = <<>>
    /\ db = [committed |-> store0, pending |-> store0]

\* A run with an empty user has failed.
C11_Witness ==
  /\ pc = "ConfigError"
  /\ user = <<>>
  /\ conn = "none"
  /\ fetched = <<>>

\* The statements executed for a page.
WritesOf(p) == {i \in 1..Len(written) : written[i].page = p}

\* C12: pages are handled in increasing order without overlap: the page
\* indices passed to fetch_tracks start at 1 and each is the one before it
\* or the next one; every processed page has all its statements executed
\* while it is the latest page fetched, and when a fetch is under way the
\* statements of every processed page are done and belong to earlier
\* pages.
C12_PagesInOrder ==
  /\ fetched # <<>> => fetched[1] = 1
  /\ \A i \in 1..(Len(fetched) - 1) :
       fetched[i + 1] \in {fetched[i], fetched[i] + 1}
  /\ \A k \in 1..Len(processed) :
       /\ Cardinality(WritesOf(processed[k].page)) = Len(processed[k].tracks)
       /\ processed[k].page <= Last(fetched)
       /\ pc = "fetching" => processed[k].page < Last(fetched)
  /\ \A i \in 1..Len(written) : written[i].page \in ProcessedPages
  /\ \A i \in 1..(Len(written) - 1) : written[i].page <= written[i + 1].page

\* Page 3 is being fetched after pages 1 and 2 were written, page 2 on
\* its second attempt.
C12_Witness ==
  /\ pc = "fetching"
  /\ fetched = <<1, 2, 2, 3>>
  /\ ProcessedPages = {1, 2}
  /\ Len(written) = SumLen(processed)

\* C13: the retry budget is per page and bounded: no page index is passed
\* to fetch_tracks more than retry_limit times, no page is handed to
\* process_tracks twice, and no attempt is issued for a page that has
\* been processed.
C13_RetryBudgetPerPage ==
  /\ \A p \in Range(fetched) : Count(fetched, p) <= retry_limit
  /\ \A j, k \in 1..Len(processed) :
       processed[j].page = processed[k].page => j = k
  /\ pc = "fetching" => Last(fetched) \notin ProcessedPages
  /\ \A k \in 1..Len(processed) :
       Cardinality(WritesOf(processed[k].page)) = Len(processed[k].tracks)

\* Page 1 was processed on the last of two attempts, page 2 on its first,
\* and the run ended.
C13_Witness ==
  /\ pc = "done"
  /\ retry_limit = 2
  /\ fetched = <<1, 1, 2>>
  /\ ProcessedPages = {1, 2}
  /\ Len(processed) = 2

\* C14: exhausting the retries of a page is reported: once the last of
\* the retry_limit attempts of a page has returned an empty track list,
\* the latest message is the failure report of line 159, not the retry
\* notice of line 154.
C14_ExhaustionIsReported ==
  (pc = "for" /\ retry_limit > 0 /\ iter = retry_limit) =>
    (logged # <<>> /\ Last(logged).msg = "FAIL")

\* C15: the number of pages of the final summary is the number of pages
\* that were processed in the run.
C15_SummaryCountsProcessedPages ==
  pc = "done" => summary.pages = Len(processed)

\* C16: unknown_total is 0 in every state and in the final summary:
\* process_tracks returns 0 as its second count for every page.
C16_UnknownTotalIsZero ==
  /\ unknown_total = 0
  /\ summary # NoSummary => summary.unknown = 0

\* A run that processed two pages with records of the same key has ended.
C16_Witness ==
  /\ pc = "done"
  /\ Len(processed) = 2
  /\ found_total > Cardinality(RowsWritten)
  /\ summary.unknown = 0

\* The lower-cased concatenation of the artist and title of a record, as
\* line 219 forms it from the stripped fields.
Concat(track) == lower(strip(track.artist)) \o lower(strip(track.name))

RECURSIVE Concats(_)
\* The concatenations of the records of the statements executed, in order.
Concats(log) ==
  IF log = <<>> THEN <<>>
  ELSE <<Concat(Head(log).track)>> \o Concats(Tail(log))

\* C17: records whose lower-cased concatenations of artist and title are
\* equal, however the text is split between the two, are stored under the
\* same url and share one play-count row, which holds the play count of
\* the one processed last.
C17_ConcatenationCollides ==
  \A cs \in {Concats(written)} :
    \A i, j \in 1..Len(written) :
      (i <= j /\ cs[i] = cs[j]) =>
        /\ written[i].row.url = written[j].row.url
        /\ Cardinality(PlayCountRows(db.pending, written[i].row.url)) = 1
        /\ (\A k \in (j + 1)..Len(written) : cs[k] # cs[j]) =>
             \A n \in PlayCountRows(db.pending, written[i].row.url) :
               db.pending[n].value = str(written[j].track.playcount)

\* ("AB", "C") was processed, then ("A", "BC"): one row, with the play
\* count of ("A", "BC").
C17_Witness ==
  /\ Len(written) = 5
  /\ written[3].track = TrkB
  /\ written[5].track = TrkA
  /\ TrkA.artist # TrkB.artist
  /\ written[3].row.url = written[5].row.url
  /\ \A n \in PlayCountRows(db.pending, written[5].row.url) :
       db.pending[n].value = str(TrkA.playcount)
  /\ Cardinality(PlayCountRows(db.pending, written[5].row.url)) = 1

\* How a run ends.
Terminal == {"done", "ConfigError", "ImportAborted", "TransportError"}

\* The iterations of the page loop begun so far.
Iterations ==
  IF pc \in {"init", "ConfigError"} THEN 0
  ELSE IF pc \in {"for", "fetching", "next", "ImportAborted",
                  "TransportError"}
       THEN page_current + 1
       ELSE page_current

\* The least bound of the page totals reported so far.
LeastBound == max_total

\* The same bound, but one at least.
BoundFromOne == IF max_total < 1 THEN 1 ELSE max_total

\* C18 as claimed: with N a bound of the page totals of all responses, a
\* run that has ended after every fetch returned has begun at most N
\* iterations of the page loop and issued at most N * retry_limit fetches.
C18_WithinAnyBound ==
  pc \in {"done", "ConfigError", "ImportAborted"} =>
    /\ Iterations <= LeastBound
    /\ Len(fetched) <= LeastBound * retry_limit

\* C18 amended: the run ends, and with N >= 1 a bound of the page totals
\* of all responses it begins at most N iterations of the page loop and
\* issues at most N * retry_limit fetches; page_current changes only at
\* the end of an iteration, processed or skipped, and then by one.
C18_TerminatesWithinBound ==
  /\ <>(pc \in Terminal)
  /\ [](/\ Iterations <= BoundFromOne
        /\ Len(fetched) <= BoundFromOne * retry_limit
        /\ Len(fetched) <= Iterations * retry_limit)
  /\ [][/\ page_current' # page_current =>
             (pc = "next" /\ page_current' = page_current + 1)
        /\ pc = "next" => page_current' = page_current + 1]_vars

\* A run of three pages, each fetched retry_limit times, has ended: one
\* page was skipped, the bound on the fetches is met.
C18_Witness ==
  /\ pc = "done"
  /\ retry_limit = 2
  /\ max_total = 3
  /\ fetched = <<1, 1, 2, 2, 3, 3>>
  /\ page_current = 3
  /\ SkippedPages # {}

\* C19: with retry_limit = 0 and a user the run fetches nothing: the page
\* loop makes its one iteration without a fetch, nothing is written,
\* found_total stays 0, no error ends the run, and the run goes through
\* prompt, commit and close to its end with the store as it was.
C19_ZeroRetriesFetchNothing ==
  (retry_limit = 0 /\ user # <<>>) =>
    /\ fetched = <<>>
    /\ written = <<>>
    /\ logged = <<>>
    /\ found_total = 0
    /\ pc \notin {"fetching", "ConfigError", "ImportAborted", "TransportError"}
    /\ Iterations <= 1
    /\ pc \in NormalExit => (page_current = 1 /\ page_total = 1)
    /\ pc = "done" =>
         /\ events = <<"open", "gate", "commit", "close">>
         /\ summary.found = 0
         /\ db = [committed |-> store0, pending |-> store0]

\* A run with retry_limit = 0 has ended normally.
C19_Witness ==
  /\ pc = "done"
  /\ retry_limit = 0
  /\ user # <<>>
  /\ fetched = <<>>
  /\ page_current = 1
  /\ summary.found = 0
====
